---- MODULE Spec2Model ----
(***************************************************************************)
(* The job execution pipeline of Ncafescraper: the queue worker            *)
(* (scripts/queue-worker.ts), the job executor (scripts/scrape-job.ts),    *)
(* the manual run route (POST /api/scrape-jobs/[id]/run) and the           *)
(* cancel-all route (POST /api/scrape-jobs/cancel-all), communicating      *)
(* through the database tables ScrapeJob, ScrapePost and Setting.          *)
(*                                                                         *)
(* A step of a process is one access to shared state (a table row, a       *)
(* setting, a child process) together with the process-local computation   *)
(* that precedes it; the executor's loop over urls takes one step per url.  *)
(* Steps of different processes interleave freely.                         *)
(***************************************************************************)
EXTENDS Integers, Sequences, FiniteSets, Bags, TLC

(* ------------------------------- bounds -------------------------------- *)

\* number of rows of the ScrapeJob table
NumJobs == 2
\* number of accepted manual run requests over a behaviour
MaxManualRuns == 1
\* number of cafes of the source site; cafe c carries the articles 1..c, and
\* article k has the same text in every cafe that carries it (a cross-post)
NumCafes == 2
\* largest job.maxPosts
MaxPosts == 2

(* ------------------------------ constants ------------------------------ *)

\* `number | null` and `Date | null` columns: the absent value
NULL == "NULL"
\* minViewCount / minCommentCount: null
NoThreshold == -1
\* a timestamp column that has been stamped with new Date()
SET == "SET"

Jobs == 1..NumJobs
\* executor processes (one `ts-node scripts/scrape-job.ts <jobId>` each):
\* every job can be admitted once by the worker, plus the manual runs
Procs == 1..(1 + MaxManualRuns)
Cafes == 1..NumCafes
\* the articles a search in cafe c can link to
Articles(c) == 1..c

TerminalStatuses == {"SUCCESS", "FAILED", "CANCELLED"}
JobStatuses == {"QUEUED", "RUNNING"} \cup TerminalStatuses

\* messages of the errors the executor can raise
ErrNoSession == "no session file"
ErrNavigation == "navigation timeout"
ErrUnique == "unique constraint failed on contentHash"
ErrSessionExpired == "login session expired"

(* --------------------------- pure functions ---------------------------- *)

\* what parsePost extracts from article k of a cafe
ParsedPost(cafeId, k) ==
    [cafeId |-> cafeId, contentText |-> k, viewCount |-> k, commentCount |-> k - 1]

\* sha256 hex digest of the text: deterministic, and collision free on the
\* texts of the model
contentHash(input) == <<"sha256", input>>

RECURSIVE InsertAsc(_, _)
InsertAsc(x, s) ==
    IF s = <<>> THEN <<x>>
    ELSE IF x <= Head(s) THEN <<x>> \o s
    ELSE <<Head(s)>> \o InsertAsc(x, Tail(s))

RECURSIVE SortAsc(_)
\* Array.prototype.sort((a, b) => a - b)
SortAsc(s) == IF s = <<>> THEN <<>> ELSE InsertAsc(Head(s), SortAsc(Tail(s)))

\* the predicate of posts.filter (lines 86-90)
MeetsThresholds(p, appliedMinView, appliedMinComment) ==
    /\ ~(appliedMinView # NoThreshold /\ p.viewCount < appliedMinView)
    /\ ~(appliedMinComment # NoThreshold /\ p.commentCount < appliedMinComment)

RECURSIVE FilterByThresholds(_, _, _)
FilterByThresholds(posts, appliedMinView, appliedMinComment) ==
    IF posts = <<>> THEN <<>>
    ELSE (IF MeetsThresholds(Head(posts), appliedMinView, appliedMinComment)
          THEN <<Head(posts)>> ELSE <<>>)
         \o FilterByThresholds(Tail(posts), appliedMinView, appliedMinComment)

\* sorted[mid - 1] || 0: the element below the middle
MidOrZero_Lower(sorted, mid) == IF mid >= 1 /\ mid <= Len(sorted) THEN sorted[mid] ELSE 0

\* sorted[mid] || 0, mid a 0-based index
MidOrZero(sorted, mid) == IF mid + 1 <= Len(sorted) THEN sorted[mid + 1] ELSE 0

\* a filter in which the auto filter overrides the explicit thresholds
clampByAutoThreshold_MedianFirst(posts, useAutoFilter, minView, minComment) ==
    IF useAutoFilter
    THEN FilterByThresholds(posts,
            MidOrZero(SortAsc([i \in 1..Len(posts) |-> posts[i].viewCount]), Len(posts) \div 2),
            MidOrZero(SortAsc([i \in 1..Len(posts) |-> posts[i].commentCount]), Len(posts) \div 2))
    ELSE FilterByThresholds(posts, minView, minComment)

clampByAutoThreshold(posts, useAutoFilter, minView, minComment) ==
    IF ~useAutoFilter /\ minView = NoThreshold /\ minComment = NoThreshold
    THEN posts
    ELSE
      LET sortedViews == SortAsc([i \in 1..Len(posts) |-> posts[i].viewCount])
          sortedComments == SortAsc([i \in 1..Len(posts) |-> posts[i].commentCount])
          mid == Len(posts) \div 2
          appliedMinView ==
              IF useAutoFilter /\ minView = NoThreshold
              THEN MidOrZero(sortedViews, mid) ELSE minView
          appliedMinComment ==
              IF useAutoFilter /\ minComment = NoThreshold
              THEN MidOrZero(sortedComments, mid) ELSE minComment
      IN FilterByThresholds(posts, appliedMinView, appliedMinComment)

\* a slice that keeps the last n elements
SliceTo_Last(s, n) == SubSeq(s, IF Len(s) < n THEN 1 ELSE Len(s) - n + 1, Len(s))

\* filtered.slice(0, job.maxPosts)
SliceTo(s, n) == SubSeq(s, 1, IF Len(s) < n THEN Len(s) ELSE n)

(* -------------------------------- state -------------------------------- *)

VARIABLES
    scrapeJob,    \* ScrapeJob table: job id -> row
    scrapePost,   \* ScrapePost table: bag of rows
    cancelKey,    \* Setting "scrapeJobCancel:<id>": NULL or "true"
    progressKey,  \* Setting "scrapeJobProgress:<id>": <<>> or <<the document>>
    worker,       \* the queue worker: position in tick, its child, last tick failed
    exec,         \* executor processes
    cancelAll,    \* the cancel-all request in flight
    manualRuns,   \* manual run requests accepted so far
    search,       \* one run of scripts/debug-cafe-search.ts
    call,         \* one application of a pure function: arguments and result
    collect,      \* the collection loop of one run, link by link
    boardCache    \* api/cafe-boards: BOARD_CACHE, the clock, the requests in flight

vars == <<scrapeJob, scrapePost, cancelKey, progressKey, worker, exec,
          cancelAll, manualRuns, search, call, collect, boardCache>>

\* a job of the full queue: both cafes, the widest batch, auto filter on for
\* the odd jobs
WideConfig(j) ==
    [cafeIds |-> [i \in 1..NumCafes |-> i], maxPosts |-> MaxPosts,
     useAutoFilter |-> (j % 2 = 1), minViewCount |-> NoThreshold,
     minCommentCount |-> NoThreshold]

\* a job on the one-article cafe with maxPosts 1
NarrowConfig ==
    [cafeIds |-> <<1>>, maxPosts |-> 1, useAutoFilter |-> FALSE,
     minViewCount |-> NoThreshold, minCommentCount |-> NoThreshold]

\* the orders in which the jobs can have been created
CreationOrders == {f \in [Jobs -> 1..NumJobs] : \A a, b \in Jobs : a # b => f[a] # f[b]}

NewJob(cfg, created) ==
    [status |-> "QUEUED", createdAt |-> created, config |-> cfg,
     startedAt |-> NULL, completedAt |-> NULL, errorMessage |-> NULL,
     resultCount |-> 0, sheetSynced |-> 0]

\* no element of activeJobs
NoJob == [id |-> 0, status |-> NULL]

\* the progress document {}: no field is present
EmptyDoc == [stage |-> NULL, message |-> NULL, cells |-> NULL]

IdleExec ==
    [pc |-> "idle", job |-> 0, byWorker |-> FALSE, cafeIdx |-> 0, urlsLeft |-> 0,
     collected |-> <<>>, finalPosts |-> <<>>, commitIdx |-> 0, savedCount |-> 0,
     err |-> NULL, loginRedirected |-> FALSE, exitCode |-> 0,
     failed |-> FALSE, slept |-> FALSE, postRows |-> <<>>, posted |-> <<>>,
     webhookSet |-> FALSE]

\* the search script is not running
NoSearch == [pc |-> "idle"]

\* no function is being applied
NoCall == [fn |-> "none"]

\* the collection loop is not being followed link by link
NoCollect == [pc |-> "idle"]

\* requests of api/cafe-boards that can be in flight together
NumRequests == 2

\* the module of api/cafe-boards after load: BOARD_CACHE = new Map(), no
\* request in flight (a bag of the cafeIds of the requests at their
\* searches), nothing answered yet; stored is the history of the latest
\* setCachedBoards of each key
NoBoardRequests ==
    [now |-> 0, steps |-> 0, map |-> <<>>, stored |-> <<>>, inFlight |-> EmptyBag,
     last |-> [kind |-> "none", key |-> <<>>, data |-> <<>>]]

\* everything but the job table
InitRest ==
    /\ scrapePost = EmptyBag
    /\ cancelKey = [j \in Jobs |-> NULL]
    /\ progressKey = [j \in Jobs |-> <<>>]
    /\ worker = [pc |-> "sleep", child |-> 0, failed |-> FALSE]
    /\ exec = [p \in Procs |-> IdleExec]
    /\ cancelAll = [pc |-> "idle", activeJobs |-> {}, cur |-> NoJob]
    /\ manualRuns = 0
    /\ search = NoSearch
    /\ call = NoCall
    /\ collect = NoCollect
    /\ boardCache = NoBoardRequests

\* a queue of wide jobs, created in any order
InitWide ==
    /\ \E order \in CreationOrders :
          scrapeJob = [j \in Jobs |-> NewJob(WideConfig(j), order[j])]
    /\ InitRest

\* a queue of narrow jobs; the jobs are alike, so they are numbered in the
\* order of their creation
Init ==
    /\ scrapeJob = [j \in Jobs |-> NewJob(NarrowConfig, j)]
    /\ InitRest

(* ------------------------------ helpers -------------------------------- *)

JobsWithStatus(s) == {j \in Jobs : scrapeJob[j].status = s}

Active(p) == exec[p].pc \notin {"idle", "exited"}

FreeProcs == {p \in Procs : exec[p].pc = "idle"}

\* child_process.spawn: the new process gets the lowest unused process slot
NextProc == CHOOSE p \in FreeProcs : \A q \in FreeProcs : p <= q

Spawned(j, fromWorker) ==
    [IdleExec EXCEPT !.pc = "start", !.job = j, !.byWorker = fromWorker]


(* --------------------------- the queue worker -------------------------- *)

\* prisma.scrapeJob.count({ where: { status: "RUNNING" } })
RunningCount == Cardinality(JobsWithStatus("RUNNING"))

\* a tick that always returns after the count
TickSkips_Always(running) == TRUE

\* if (running > 0) return;
TickSkips(running) == running > 0

\* findFirst without the orderBy: any QUEUED job
FindFirstQueued_Unordered == JobsWithStatus("QUEUED")

\* findFirst({ where: { status: "QUEUED" }, orderBy: { createdAt: "asc" } }):
\* the rows the query can return (none when no job is QUEUED)
FindFirstQueued ==
    {j \in JobsWithStatus("QUEUED") :
        \A k \in JobsWithStatus("QUEUED") : scrapeJob[j].createdAt <= scrapeJob[k].createdAt}

\* a tick that does not await the exit of its child
ChildExited_NoWait(p) == TRUE

\* child.on("exit", () => resolve())
ChildExited(p) == exec[p].pc = "exited"

\* tick, first await: count the RUNNING jobs; return when there is one
TickCount ==
    /\ worker.pc = "sleep"
    /\ worker' = IF TickSkips(RunningCount) THEN [worker EXCEPT !.failed = FALSE]
                 ELSE [worker EXCEPT !.pc = "counted", !.failed = FALSE]
    /\ UNCHANGED <<scrapeJob, scrapePost, cancelKey, progressKey, exec, cancelAll, manualRuns, search, call, collect, boardCache>>

\* tick, second await: pick the oldest QUEUED job and spawn its executor
TickSelect ==
    /\ worker.pc = "counted"
    /\ IF FindFirstQueued = {}
       THEN /\ worker' = [worker EXCEPT !.pc = "sleep"]
            /\ UNCHANGED exec
       ELSE \E nextJob \in FindFirstQueued :
            /\ exec' = [exec EXCEPT ![NextProc] = Spawned(nextJob, TRUE)]
            /\ worker' = [pc |-> "waiting", child |-> NextProc, failed |-> FALSE]
    /\ UNCHANGED <<scrapeJob, scrapePost, cancelKey, progressKey, cancelAll, manualRuns, search, call, collect, boardCache>>

\* tick, third await: the child has exited, tick returns and the loop sleeps
TickChildExit ==
    /\ worker.pc = "waiting"
    /\ ChildExited(worker.child)
    /\ worker' = [pc |-> "sleep", child |-> 0, failed |-> FALSE]
    /\ exec' = [exec EXCEPT ![worker.child] = IF @.pc = "exited" THEN IdleExec ELSE @]
    /\ UNCHANGED <<scrapeJob, scrapePost, cancelKey, progressKey, cancelAll, manualRuns, search, call, collect, boardCache>>

\* a loop without the catch: the rejection of tick ends main
TickCaught_Exit(w) == [pc |-> "stopped", child |-> 0, failed |-> TRUE]

\* main: await tick().catch(...), then the sleep of the loop
TickCaught(w) == [pc |-> "sleep", child |-> 0, failed |-> TRUE]

\* tick rejects: the count or the findFirst fails (a failed read of the job
\* table); the promise that awaits the child's exit never rejects
TickError ==
    /\ worker.pc \in {"sleep", "counted"}
    /\ worker' = TickCaught(worker)
    /\ UNCHANGED <<scrapeJob, scrapePost, cancelKey, progressKey, exec, cancelAll, manualRuns, search, call, collect, boardCache>>

(* --------------------------- manual run route -------------------------- *)

\* if (job.status === "RUNNING") return 409
RunRefused(j) == scrapeJob[j].status = "RUNNING"

\* POST /api/scrape-jobs/[id]/run by a logged-in user for an existing job
RunJobRoute(j) ==
    /\ manualRuns < MaxManualRuns
    /\ IF RunRefused(j)
       THEN UNCHANGED <<exec, manualRuns>>
       ELSE /\ exec' = [exec EXCEPT ![NextProc] = Spawned(j, FALSE)]
            /\ manualRuns' = manualRuns + 1
    /\ UNCHANGED <<scrapeJob, scrapePost, cancelKey, progressKey, worker, cancelAll, search, call, collect, boardCache>>

(* --------------------------- cancel-all route -------------------------- *)

\* findMany({ where: { status: { in: ["RUNNING", "QUEUED"] } }, select: { id, status } })
FindActiveJobs ==
    {[id |-> j, status |-> scrapeJob[j].status] :
        j \in JobsWithStatus("RUNNING") \cup JobsWithStatus("QUEUED")}

\* an update that leaves completedAt as it was
CancelledRow_NoCompletedAt(row, job) ==
    [row EXCEPT !.status = "CANCELLED",
                !.errorMessage = IF job.status = "QUEUED"
                                 THEN "cancelled by user (queued)"
                                 ELSE "cancelled by user"]

\* data of the update of one active job
CancelledRow(row, job) ==
    [row EXCEPT !.status = "CANCELLED", !.completedAt = SET,
                !.errorMessage = IF job.status = "QUEUED"
                                 THEN "cancelled by user (queued)"
                                 ELSE "cancelled by user"]

\* a progress value built without the stored document
CancelledProgress_Fresh(stored) ==
    <<[EmptyDoc EXCEPT !.stage = "CANCELLED", !.message = "cancel requested"]>>

\* { ...previous, stage: "CANCELLED", message: "cancel requested" }: previous
\* is the stored document, {} when the key is absent
CancelledProgress(stored) ==
    LET previous == IF stored = <<>> THEN EmptyDoc ELSE stored[1]
    IN <<[previous EXCEPT !.stage = "CANCELLED", !.message = "cancel requested"]>>

\* read the active jobs; nothing to do when there is none
CancelAllRead ==
    /\ cancelAll.pc = "idle"
    /\ cancelAll' = IF FindActiveJobs = {} THEN cancelAll
                    ELSE [pc |-> "update", activeJobs |-> FindActiveJobs, cur |-> NoJob]
    /\ UNCHANGED <<scrapeJob, scrapePost, cancelKey, progressKey, worker, exec, manualRuns, search, call, collect, boardCache>>

\* loop body, first await: mark the job CANCELLED (the rows come back in an
\* order the query does not fix)
CancelAllUpdate ==
    /\ cancelAll.pc = "update"
    /\ \E job \in cancelAll.activeJobs :
        /\ scrapeJob' = [scrapeJob EXCEPT ![job.id] = CancelledRow(@, job)]
        /\ cancelAll' = [cancelAll EXCEPT !.pc = "settings", !.cur = job]
    /\ UNCHANGED <<scrapePost, cancelKey, progressKey, worker, exec, manualRuns, search, call, collect, boardCache>>

\* loop body, remaining awaits: set the cancel flag and the progress stage of
\* a job that was RUNNING, delete both keys of a job that was QUEUED
CancelAllSettings ==
    /\ cancelAll.pc = "settings"
    /\ LET job == cancelAll.cur
           rest == cancelAll.activeJobs \ {job}
       IN /\ IF job.status = "RUNNING"
             THEN /\ cancelKey' = [cancelKey EXCEPT ![job.id] = "true"]
                  /\ progressKey' = [progressKey EXCEPT ![job.id] = CancelledProgress(@)]
             ELSE /\ cancelKey' = [cancelKey EXCEPT ![job.id] = NULL]
                  /\ progressKey' = [progressKey EXCEPT ![job.id] = <<>>]
          /\ cancelAll' = [pc |-> IF rest = {} THEN "idle" ELSE "update",
                           activeJobs |-> rest, cur |-> NoJob]
    /\ UNCHANGED <<scrapeJob, scrapePost, worker, exec, manualRuns, search, call, collect, boardCache>>


\* One cancel-all request on a job table and a settings table as it can find
\* them: jobs in any status, and for each job no progress document or the
\* document of a run in progress.
JobInStatus(j, status) ==
    [NewJob(NarrowConfig, j) EXCEPT
        !.status = status,
        !.startedAt = IF status = "QUEUED" THEN NULL ELSE SET,
        !.completedAt = IF status \in TerminalStatuses THEN SET ELSE NULL]

\* a stored progress document of a run: its stage, message and cell matrix
RunDoc == [stage |-> "PARSING", message |-> "parsing", cells |-> "matrix"]

CancelInit ==
    /\ \E status \in [Jobs -> JobStatuses] :
          scrapeJob = [j \in Jobs |-> JobInStatus(j, status[j])]
    /\ progressKey \in [Jobs -> {<<>>, <<RunDoc>>}]
    /\ cancelKey \in [Jobs -> {NULL, "true"}]
    /\ scrapePost = EmptyBag
    /\ worker = [pc |-> "sleep", child |-> 0, failed |-> FALSE]
    /\ exec = [p \in Procs |-> IdleExec]
    /\ cancelAll = [pc |-> "idle", activeJobs |-> {}, cur |-> NoJob]
    /\ manualRuns = 0
    /\ search = NoSearch
    /\ call = NoCall
    /\ collect = NoCollect
    /\ boardCache = NoBoardRequests

CancelNext == CancelAllRead \/ CancelAllUpdate \/ CancelAllSettings

CancelSpec == CancelInit /\ [][CancelNext]_vars

(* ----------------------------- the executor ---------------------------- *)

\* what the navigation of one parsePost call can meet: a login redirect, a
\* navigation timeout, a page without content, or an article of the cafe
ParseOutcomes(cafeId) ==
    {[kind |-> k, article |-> 0] : k \in {"nidlogin", "timeout", "nocontent"}}
    \cup {[kind |-> "article", article |-> k] : k \in Articles(cafeId)}

\* parsePost: throws on a login redirect and on a timeout of page.goto,
\* returns null (<<>>) for a page without content, else the parsed post
parsePost(cafeId, outcome) ==
    CASE outcome.kind = "nidlogin" -> [threw |-> ErrSessionExpired, value |-> <<>>]
      [] outcome.kind = "timeout" -> [threw |-> ErrNavigation, value |-> <<>>]
      [] outcome.kind = "nocontent" -> [threw |-> NULL, value |-> <<>>]
      [] OTHER -> [threw |-> NULL, value |-> <<ParsedPost(cafeId, outcome.article)>>]

\* promise.catch left out: a rejection of parsePost stays a rejection
CatchNull_Rethrow(result) == result

\* promise.catch(() => null): a rejection becomes null
CatchNull(result) == [threw |-> NULL, value |-> result.value]

\* data of the update on entry to RUNNING
RunningRow(row) ==
    [row EXCEPT !.status = "RUNNING", !.startedAt = SET, !.errorMessage = NULL]

\* a terminal update of a run in which a failed push fails the job
SuccessRow_SinkFails(row, savedCount, syncedCount) ==
    IF syncedCount = 0 /\ savedCount > 0
    THEN [row EXCEPT !.status = "FAILED", !.errorMessage = "Google Sheet sync failed",
                     !.completedAt = SET]
    ELSE [row EXCEPT !.status = "SUCCESS", !.resultCount = savedCount,
                     !.sheetSynced = syncedCount, !.completedAt = SET]

\* a terminal update that mixes up the two counters
SuccessRow_Swapped(row, savedCount, syncedCount) ==
    [row EXCEPT !.status = "SUCCESS", !.resultCount = syncedCount,
                !.sheetSynced = savedCount, !.completedAt = SET]

\* data of the terminal update of run
SuccessRow(row, savedCount, syncedCount) ==
    [row EXCEPT !.status = "SUCCESS", !.resultCount = savedCount,
                !.sheetSynced = syncedCount, !.completedAt = SET]

\* a catch block that puts the failed job back into the queue
FailedRow_Requeue(row, message) ==
    [row EXCEPT !.status = "QUEUED", !.errorMessage = message]

\* a catch block that stores the message and forgets the status
FailedRow_MessageOnly(row, message) ==
    [row EXCEPT !.errorMessage = message, !.completedAt = SET]

\* data of the update in the catch block of main
FailedRow(row, message) ==
    [row EXCEPT !.status = "FAILED", !.errorMessage = message, !.completedAt = SET]

\* findUnique({ where: { contentHash: hash } }) finds a row
Existed(hash) == \E row \in BagToSet(scrapePost) : row.contentHash = hash

\* a hash that covers the job id besides the text
PostHash_PerJob(jobId, post) == contentHash(<<jobId, post.contentText>>)

\* the hash the commit loop computes for a post
PostHash(jobId, post) == contentHash(post.contentText)

\* the unique index of ScrapePost.contentHash rejects the insert
UniqueViolation(hash) == \E row \in BagToSet(scrapePost) : row.contentHash = hash

\* the job and the cafe an executor is working on
JobOf(p) == scrapeJob[exec[p].job]
CafeOf(p) == JobOf(p).config.cafeIds[exec[p].cafeIdx]

Throw(p, message) == [exec EXCEPT ![p].pc = "catch", ![p].err = message]

\* run: findUnique of the job and the session file check, which throws when
\* the file is missing; then the job becomes RUNNING and the browser is launched
ExecStart(p) ==
    /\ exec[p].pc = "start"
    /\ \E sessionFileExists \in BOOLEAN :
        IF sessionFileExists
        THEN /\ scrapeJob' = [scrapeJob EXCEPT ![exec[p].job] = RunningRow(@)]
             /\ exec' = [exec EXCEPT ![p].pc = "cafe", ![p].cafeIdx = 1]
        ELSE /\ exec' = Throw(p, ErrNoSession)
             /\ UNCHANGED scrapeJob
    /\ UNCHANGED <<scrapePost, cancelKey, progressKey, worker, cancelAll, manualRuns, search, call, collect, boardCache>>

\* run: collectArticleUrls for the next cafe; a failed navigation throws
ExecCollectUrls(p) ==
    /\ exec[p].pc = "cafe"
    /\ \/ \E n \in 0..Cardinality(Articles(CafeOf(p))) :
            exec' = [exec EXCEPT ![p].pc = "url", ![p].urlsLeft = n]
       \/ exec' = Throw(p, ErrNavigation)
    /\ UNCHANGED <<scrapeJob, scrapePost, cancelKey, progressKey, worker, cancelAll, manualRuns, search, call, collect, boardCache>>

\* a loop guard that lets one post too many in
BatchFull_OffByOne(p) == Len(exec[p].collected) > JobOf(p).config.maxPosts

\* if (collected.length >= job.maxPosts) break;
BatchFull(p) == Len(exec[p].collected) >= JobOf(p).config.maxPosts

\* run: one iteration of the loop over urls: parsePost, the word and date
\* filters (their verdict is an input here), push, politeness sleep.  The
\* sleep of line 316 follows the push, so the iterations that end in a
\* continue do not reach it.  failed and slept record how the iteration went:
\* the extraction gave no post, the politeness sleep was performed.
ExecCandidate(p) ==
    /\ exec[p].pc = "url"
    /\ exec[p].urlsLeft > 0
    /\ ~BatchFull(p)
    /\ \E outcome \in ParseOutcomes(CafeOf(p)) : \E allowed \in BOOLEAN :
        LET raw == parsePost(CafeOf(p), outcome)
            parsed == CatchNull(raw)
            noPost == raw.threw # NULL \/ raw.value = <<>>
            pushed == parsed.value # <<>> /\ allowed
        IN exec' =
            IF parsed.threw # NULL
            THEN [Throw(p, parsed.threw) EXCEPT ![p].failed = noPost, ![p].slept = FALSE]
            ELSE [exec EXCEPT
                ![p].urlsLeft = @ - 1,
                ![p].loginRedirected = @ \/ outcome.kind = "nidlogin",
                ![p].failed = noPost,
                ![p].slept = pushed,
                ![p].collected = IF pushed THEN Append(@, parsed.value[1]) ELSE @]
    /\ UNCHANGED <<scrapeJob, scrapePost, cancelKey, progressKey, worker, cancelAll, manualRuns, search, call, collect, boardCache>>

\* the final batch: threshold filter, then truncation to maxPosts
FinalPosts(collected, cfg) ==
    SliceTo(clampByAutoThreshold(collected, cfg.useAutoFilter, cfg.minViewCount,
                                 cfg.minCommentCount), cfg.maxPosts)

\* run: the loop over urls ends (exhausted or batch full). The next cafe is
\* taken unless the batch is full or the cafes are exhausted; then the
\* browser is closed and the final batch is computed (collected is not read
\* again and is dropped here)
ExecUrlsDone(p) ==
    /\ exec[p].pc = "url"
    /\ exec[p].urlsLeft = 0 \/ BatchFull(p)
    /\ exec' = IF BatchFull(p) \/ exec[p].cafeIdx >= Len(JobOf(p).config.cafeIds)
               THEN [exec EXCEPT ![p].pc = "commit", ![p].urlsLeft = 0, ![p].commitIdx = 1,
                        ![p].collected = <<>>, ![p].failed = FALSE, ![p].slept = FALSE,
                        ![p].finalPosts = FinalPosts(exec[p].collected, JobOf(p).config)]
               ELSE [exec EXCEPT ![p].pc = "cafe", ![p].urlsLeft = 0, ![p].cafeIdx = @ + 1,
                        ![p].failed = FALSE, ![p].slept = FALSE]
    /\ UNCHANGED <<scrapeJob, scrapePost, cancelKey, progressKey, worker, cancelAll, manualRuns, search, call, collect, boardCache>>

\* commit loop: hash the next post and look the hash up; an existing row
\* skips the post
ExecCommitFind(p) ==
    /\ exec[p].pc = "commit"
    /\ exec[p].commitIdx <= Len(exec[p].finalPosts)
    /\ LET post == exec[p].finalPosts[exec[p].commitIdx]
       IN exec' = IF Existed(PostHash(exec[p].job, post))
                  THEN [exec EXCEPT ![p].commitIdx = @ + 1]
                  ELSE [exec EXCEPT ![p].pc = "create"]
    /\ UNCHANGED <<scrapeJob, scrapePost, cancelKey, progressKey, worker, cancelAll, manualRuns, search, call, collect, boardCache>>

\* a post row whose owner is left out
CreatedRow_NoOwner(jobId, post, hash) ==
    [jobId |-> 0, cafeId |-> post.cafeId, contentText |-> post.contentText,
     contentHash |-> hash]

\* data of prisma.scrapePost.create
CreatedRow(jobId, post, hash) ==
    [jobId |-> jobId, cafeId |-> post.cafeId, contentText |-> post.contentText,
     contentHash |-> hash]

\* the element of postRows pushed for a created post
PostRow(jobId, post) ==
    [jobId |-> jobId, cafeId |-> post.cafeId, contentText |-> post.contentText]

\* commit loop: create the row (and its comments) and push its sheet row; the
\* insert throws when the hash has been stored since the lookup
ExecCommitCreate(p) ==
    /\ exec[p].pc = "create"
    /\ LET post == exec[p].finalPosts[exec[p].commitIdx]
           hash == PostHash(exec[p].job, post)
       IN IF UniqueViolation(hash)
          THEN /\ exec' = Throw(p, ErrUnique)
               /\ UNCHANGED scrapePost
          ELSE /\ scrapePost' = scrapePost (+) SetToBag({CreatedRow(exec[p].job, post, hash)})
               /\ exec' = [exec EXCEPT ![p].pc = "commit", ![p].commitIdx = @ + 1,
                                       ![p].postRows = Append(@, PostRow(exec[p].job, post)),
                                       ![p].savedCount = @ + 1]
    /\ UNCHANGED <<scrapeJob, cancelKey, progressKey, worker, cancelAll, manualRuns, search, call, collect, boardCache>>

\* syncedCount after the try/catch around sendRowsToGoogleSheet
SyncedCount(sent, savedCount) == IF sent THEN savedCount ELSE 0

\* a request body with one field for the post rows and one for comment rows
SheetBody_TwoFields(postRows) == [postRows |-> postRows, commentRows |-> <<>>]

\* body of the POST of sendRowsToGoogleSheet: { [SHEET_POSTS_V2_KEY]: safePostRows }.
\* The texts of the executor's model are shorter than the cell limit, so the
\* rows are carried with their texts as they are.
SheetBody(postRows) == [postRowsV2 |-> postRows]

\* the fallback of sendRowsToGoogleSheet when the variable is not set
DEFAULT_WEBHOOK_URL == "https://script.google.com/macros/s/.../exec"

\* process.env.GSHEET_WEBHOOK_URL || DEFAULT_WEBHOOK_URL; webhookSet tells
\* whether the variable holds a url
Endpoint(webhookSet) == IF webhookSet THEN "GSHEET_WEBHOOK_URL" ELSE DEFAULT_WEBHOOK_URL

\* if (!endpoint) return;
SendAttempted(endpoint) == endpoint # ""

\* run: the csv is written, the rows are pushed to the sheet in one POST (a
\* failed push is caught), then the terminal update.  posted lists the bodies
\* of the requests this run has issued; webhookSet records whether the
\* endpoint was configured; ok is the answer of the sink.  The call returns
\* normally when no send is attempted or the answer is ok.
ExecTerminalWrite(p) ==
    /\ exec[p].pc = "commit"
    /\ exec[p].commitIdx > Len(exec[p].finalPosts)
    /\ \E webhookSet \in BOOLEAN : \E ok \in BOOLEAN :
        LET attempted == SendAttempted(Endpoint(webhookSet))
            sent == ~attempted \/ ok
        IN /\ scrapeJob' = [scrapeJob EXCEPT ![exec[p].job] =
                  SuccessRow(@, exec[p].savedCount, SyncedCount(sent, Len(exec[p].postRows)))]
           /\ exec' = [exec EXCEPT
                  ![p].pc = "done",
                  ![p].webhookSet = webhookSet,
                  ![p].posted = IF attempted THEN Append(@, SheetBody(exec[p].postRows))
                                ELSE @]
    /\ UNCHANGED <<scrapePost, cancelKey, progressKey, worker, cancelAll, manualRuns, search, call, collect, boardCache>>

\* main: the catch block stores the failure before it rethrows
ExecCatch(p) ==
    /\ exec[p].pc = "catch"
    /\ scrapeJob' = [scrapeJob EXCEPT ![exec[p].job] = FailedRow(@, exec[p].err)]
    /\ exec' = [exec EXCEPT ![p].pc = "rethrow", ![p].err = NULL]
    /\ UNCHANGED <<scrapePost, cancelKey, progressKey, worker, cancelAll, manualRuns, search, call, collect, boardCache>>

\* the process is gone and its memory is released; the child of a worker
\* that awaits its exit event keeps its job and exit code until the worker
\* has taken the event, a detached process leaves nothing
Exited(p) ==
    IF exec[p].byWorker /\ worker.pc = "waiting" /\ worker.child = p
    THEN [IdleExec EXCEPT !.pc = "exited", !.job = exec[p].job, !.byWorker = TRUE,
                          !.exitCode = IF exec[p].pc = "rethrow" THEN 1 ELSE 0]
    ELSE IdleExec

\* main: the process exits, with code 1 when main rejected
ExecExit(p) ==
    /\ exec[p].pc \in {"done", "rethrow"}
    /\ exec' = [exec EXCEPT ![p] = Exited(p)]
    /\ UNCHANGED <<scrapeJob, scrapePost, cancelKey, progressKey, worker, cancelAll, manualRuns, search, call, collect, boardCache>>

Executor(p) ==
    \/ ExecStart(p) \/ ExecCollectUrls(p) \/ ExecCandidate(p) \/ ExecUrlsDone(p)
    \/ ExecCommitFind(p) \/ ExecCommitCreate(p) \/ ExecTerminalWrite(p)
    \/ ExecCatch(p) \/ ExecExit(p)

(* --------------------------- specifications ---------------------------- *)

\* the worker, its executors and cancel-all: no manual run request
SchedNext ==
    \/ TickCount \/ TickSelect \/ TickChildExit
    \/ CancelAllRead \/ CancelAllUpdate \/ CancelAllSettings
    \/ \E p \in Procs : Executor(p)

SchedSpec == InitWide /\ [][SchedNext]_vars

Next ==
    \/ SchedNext
    \/ \E j \in Jobs : RunJobRoute(j)

Spec == Init /\ [][Next]_vars

\* The worker and its executors under fair scheduling.  The worker's loop
\* (while (true) { await tick(); await sleep }) takes every step of tick
\* that stays possible, and an executor is a process of its own that goes on
\* from await to await until it exits.  Cancel-all requests are not owed any
\* progress.
Fairness ==
    /\ WF_vars(TickCount)
    /\ WF_vars(TickSelect)
    /\ WF_vars(TickChildExit)
    /\ \A p \in Procs : WF_vars(Executor(p))

FairSpec == Init /\ [][SchedNext]_vars /\ Fairness


\* The worker with reads of the job table that can fail, its executors and
\* cancel-all, under the fair scheduling of FairSpec.
TickNext == SchedNext \/ TickError

TickSpec == Init /\ [][TickNext]_vars /\ Fairness

(* ------------------------------- claims -------------------------------- *)

\* steps the claims speak about
WorkerSpawns == worker.pc = "counted" /\ worker'.pc = "waiting"
SetsRunning(p) == exec[p].pc = "start" /\ exec'[p].pc = "cafe"
AttemptStep(p) ==
    /\ exec[p].pc = "url" /\ exec'[p].pc = "url"
    /\ exec'[p].urlsLeft = exec[p].urlsLeft - 1
WritesSuccess(p) == exec[p].pc = "commit" /\ exec'[p].pc = "done"
ActiveProcs == {p \in Procs : Active(p)}

\* C1: with one worker and executors started only by it, at most one job is
\* RUNNING in every reachable state; a tick that counts a RUNNING job starts
\* nothing, the worker spawns only when no job is RUNNING and no executor is
\* alive, and a tick that spawned returns only after its child has exited.
C1_AtMostOneRunning ==
    /\ [](RunningCount <= 1)
    /\ [][(worker.pc = "sleep" /\ RunningCount > 0) => worker'.pc = "sleep"]_vars
    /\ [][WorkerSpawns => (RunningCount = 0 /\ ActiveProcs = {})]_vars
    /\ [][(worker.pc = "waiting" /\ worker'.pc # "waiting")
            => exec[worker.child].pc = "exited"]_vars

\* one job is RUNNING in the worker's child while another is still QUEUED
C1_Witness ==
    /\ worker.pc = "waiting"
    /\ \E j, k \in Jobs :
        /\ exec[worker.child].job = j
        /\ scrapeJob[j].status = "RUNNING"
        /\ scrapeJob[k].status = "QUEUED"

\* C2: a job whose status is SUCCESS, FAILED or CANCELLED keeps that status
\* in every later step.
C2_TerminalIsFinal ==
    [][\A j \in Jobs : scrapeJob[j].status \in TerminalStatuses
            => scrapeJob'[j].status = scrapeJob[j].status]_vars

\* C3: at most one executor process is alive at any time.
C3_OneExecutor == Cardinality(ActiveProcs) <= 1

\* C4: no step sets a job's status to QUEUED: a job that has left QUEUED is
\* never QUEUED again.
C4_NeverRequeued ==
    [][\A j \in Jobs : scrapeJob[j].status # "QUEUED"
            => scrapeJob'[j].status # "QUEUED"]_vars

\* the crash guard and cancel-all have each written a terminal status
C4_Witness ==
    \E j, k \in Jobs :
        /\ scrapeJob[j].status = "FAILED" /\ scrapeJob[j].errorMessage = ErrNavigation
        /\ scrapeJob[k].status = "CANCELLED"

\* C5: the job the worker admits is QUEUED and has the earliest createdAt of
\* the QUEUED jobs at the selection; while the worker waits for its child every
\* job still QUEUED is younger than the child's job; and when an executor sets
\* its job RUNNING no older job is QUEUED.
C5_Fifo ==
    /\ [][WorkerSpawns =>
            LET j == exec'[worker'.child].job
            IN /\ scrapeJob[j].status = "QUEUED"
               /\ \A k \in JobsWithStatus("QUEUED") :
                    scrapeJob[j].createdAt <= scrapeJob[k].createdAt]_vars
    /\ [](worker.pc = "waiting" =>
            \A k \in JobsWithStatus("QUEUED") \ {exec[worker.child].job} :
                scrapeJob[exec[worker.child].job].createdAt < scrapeJob[k].createdAt)
    /\ [][\A p \in Procs : SetsRunning(p) =>
            \A k \in JobsWithStatus("QUEUED") :
                scrapeJob[exec[p].job].createdAt <= scrapeJob[k].createdAt]_vars

\* the worker runs the older job, whose id is the larger one, while the
\* younger job is still QUEUED
C5_Witness ==
    /\ worker.pc = "waiting"
    /\ \E k \in Jobs :
        /\ scrapeJob[k].status = "QUEUED"
        /\ k < exec[worker.child].job
        /\ scrapeJob[exec[worker.child].job].status = "RUNNING"

C7_CancelStopsRun ==
    [][\A p \in Procs : (Active(p) /\ cancelKey[exec[p].job] = "true")
            => (~AttemptStep(p) /\ ~WritesSuccess(p))]_vars

\* C8: after a navigation that landed on the login redirect the run attempts
\* no further candidate and does not end with the SUCCESS write.
C8_LoginRedirectFails ==
    [][\A p \in Procs : exec[p].loginRedirected
            => (~AttemptStep(p) /\ ~WritesSuccess(p))]_vars

\* C9: every row of the store is there once, and no two rows share a content
\* hash or a content text.
C9_UniqueHash ==
    \A r1 \in BagToSet(scrapePost) :
        /\ CopiesIn(r1, scrapePost) = 1
        /\ \A r2 \in BagToSet(scrapePost) :
            (r1.contentHash = r2.contentHash \/ r1.contentText = r2.contentText)
                => r1 = r2

\* a batch of two posts with the same text has been committed: the first
\* was created, the second skipped
C9_Witness ==
    \E p \in Procs :
        /\ exec[p].pc = "commit"
        /\ Len(exec[p].finalPosts) = 2
        /\ exec[p].finalPosts[1].contentText = exec[p].finalPosts[2].contentText
        /\ exec[p].commitIdx = 3
        /\ exec[p].savedCount = 1

\* C10: a commit phase that reaches its create after the hash has been stored
\* by another commit phase skips the post silently (no row is added, nothing is
\* counted, nothing is thrown), and no job records the duplicate as its failure.
C10_DuplicateIsSkipped ==
    /\ [][\A p \in Procs :
            (/\ exec[p].pc = "create" /\ exec'[p].pc # "create"
             /\ Existed(PostHash(exec[p].job, exec[p].finalPosts[exec[p].commitIdx])))
            => /\ exec'[p].pc = "commit"
               /\ exec'[p].savedCount = exec[p].savedCount
               /\ scrapePost' = scrapePost]_vars
    /\ [](\A j \in Jobs : scrapeJob[j].errorMessage # ErrUnique)

\* rows of the store that job j created
RowsCreatedBy(j) == {row \in BagToSet(scrapePost) : row.jobId = j}

\* C11: the resultCount of a SUCCESS job is the number of rows the job
\* created, the terminal write stores the count of creates of the run, and a
\* post whose hash the lookup finds is neither stored nor counted.
C11_ResultCountIsCreated ==
    /\ [](\A j \in Jobs : scrapeJob[j].status = "SUCCESS"
            => scrapeJob[j].resultCount = Cardinality(RowsCreatedBy(j)))
    /\ [][\A p \in Procs : WritesSuccess(p)
            => /\ scrapeJob'[exec[p].job].resultCount = exec[p].savedCount
               /\ exec[p].savedCount = Cardinality(RowsCreatedBy(exec[p].job))]_vars
    /\ [][\A p \in Procs :
            (/\ exec[p].pc = "commit" /\ exec'[p] # exec[p]
             /\ exec[p].commitIdx <= Len(exec[p].finalPosts)
             /\ Existed(PostHash(exec[p].job, exec[p].finalPosts[exec[p].commitIdx])))
            => /\ scrapePost' = scrapePost
               /\ exec'[p].savedCount = exec[p].savedCount
               /\ exec'[p].commitIdx = exec[p].commitIdx + 1]_vars

\* a job has ended SUCCESS with fewer rows created than its final batch
\* holds, a post of the batch being stored as a row of another job
C11_Witness ==
    \E p \in Procs :
        /\ exec[p].pc = "done"
        /\ scrapeJob[exec[p].job].status = "SUCCESS"
        /\ scrapeJob[exec[p].job].resultCount < Len(exec[p].finalPosts)
        /\ \E i \in 1..Len(exec[p].finalPosts) : \E row \in BagToSet(scrapePost) :
            /\ row.jobId # exec[p].job
            /\ row.contentText = exec[p].finalPosts[i].contentText

\* C12: the collected batch of a run never holds more than maxPosts posts,
\* a candidate is attempted only while it holds fewer, and the final batch,
\* the creates of the run and the rows of the job number at most maxPosts.
C12_BatchBounded ==
    /\ [](\A p \in ActiveProcs :
            /\ Len(exec[p].collected) <= JobOf(p).config.maxPosts
            /\ Len(exec[p].finalPosts) <= JobOf(p).config.maxPosts
            /\ exec[p].savedCount <= JobOf(p).config.maxPosts)
    /\ [][\A p \in Procs : AttemptStep(p)
            => Len(exec[p].collected) < JobOf(p).config.maxPosts]_vars
    /\ [](\A j \in Jobs : Cardinality(RowsCreatedBy(j)) <= scrapeJob[j].config.maxPosts)

\* the batch is full while urls of the cafe are left over
C12_Witness ==
    \E p \in Procs :
        /\ exec[p].pc = "url"
        /\ exec[p].urlsLeft > 0
        /\ Len(exec[p].collected) = JobOf(p).config.maxPosts

(* ------------------- the search script (paging) ------------------------ *)

\* largest pages argument, largest size argument, largest article id
MaxPagesArg == 5
MaxSizeArg == 2
MaxArticleId == 2

\* a command line argument that is not given
NoArg == -1
\* pagesArg || "4", sizeArg || "50", Math.min(100, ...)
DefaultPages == 4
DefaultSize == 50
MaxPerPage == 100

MaxOf(a, b) == IF a >= b THEN a ELSE b
MinOf(a, b) == IF a <= b THEN a ELSE b

\* const pages = Math.max(1, Number(pagesArg || "4"))
PagesOf(pagesArg) == MaxOf(1, IF pagesArg = NoArg THEN DefaultPages ELSE pagesArg)

\* const size = Math.max(1, Math.min(100, Number(sizeArg || "50")))
SizeOf(sizeArg) == MaxOf(1, MinOf(MaxPerPage, IF sizeArg = NoArg THEN DefaultSize ELSE sizeArg))

\* the entries of an articleList: articles (articleId 0: no identifier) and
\* entries of another type, such as the ads the request asks for (ad=true)
ApiRows ==
    {[type |-> "ARTICLE", articleId |-> k] : k \in 0..MaxArticleId}
    \cup {[type |-> "AD", articleId |-> 0]}

\* the lists a request with perPage = size can be answered with
ArticleLists(size) == UNION {[1..n -> ApiRows] : n \in 0..size}

RECURSIVE SearchRows(_)
\* rows: the ARTICLE entries of the list that carry an articleId
SearchRows(list) ==
    IF list = <<>> THEN <<>>
    ELSE (IF Head(list).type = "ARTICLE" /\ Head(list).articleId # 0
          THEN <<Head(list).articleId>> ELSE <<>>) \o SearchRows(Tail(list))

\* if (rows.length < size) break
PartialPage(rows, size) == Len(rows) < size

mainVars == <<scrapeJob, scrapePost, cancelKey, progressKey, worker, exec,
              cancelAll, manualRuns>>

\* main up to the loop: the arguments are read, nothing has been requested
SearchStarted(pagesArg, sizeArg) ==
    [pc |-> "loop", pages |-> PagesOf(pagesArg), size |-> SizeOf(sizeArg),
     pageNo |-> 1, allRows |-> <<>>, requested |-> <<>>,
     listLen |-> 0, rowsLen |-> 0]

SearchInit ==
    /\ scrapeJob = [j \in Jobs |-> NewJob(NarrowConfig, j)]
    /\ scrapePost = EmptyBag
    /\ cancelKey = [j \in Jobs |-> NULL]
    /\ progressKey = [j \in Jobs |-> <<>>]
    /\ worker = [pc |-> "sleep", child |-> 0, failed |-> FALSE]
    /\ exec = [p \in Procs |-> IdleExec]
    /\ cancelAll = [pc |-> "idle", activeJobs |-> {}, cur |-> NoJob]
    /\ manualRuns = 0
    /\ call = NoCall
    /\ collect = NoCollect
    /\ boardCache = NoBoardRequests
    /\ \E pagesArg \in {NoArg} \cup 0..MaxPagesArg : \E sizeArg \in 0..MaxSizeArg :
          search = SearchStarted(pagesArg, sizeArg)

\* one iteration of the loop over pages: the request for page pageNo, the
\* answer, the rows of the answer, and the two breaks
SearchPage ==
    /\ search.pc = "loop"
    /\ search.pageNo <= search.pages
    /\ \E list \in ArticleLists(search.size) :
        LET rows == SearchRows(list)
            asked == [search EXCEPT !.requested = Append(@, search.pageNo),
                                    !.listLen = Len(list), !.rowsLen = Len(rows)]
        IN search' =
            IF Len(list) = 0
            THEN [asked EXCEPT !.pc = "done"]
            ELSE IF PartialPage(rows, search.size)
            THEN [asked EXCEPT !.pc = "done", !.allRows = @ \o rows]
            ELSE [asked EXCEPT !.pageNo = @ + 1, !.allRows = @ \o rows]
    /\ UNCHANGED <<mainVars, call, collect, boardCache>>

\* the loop condition pageNo <= pages fails
SearchLoopEnd ==
    /\ search.pc = "loop"
    /\ search.pageNo > search.pages
    /\ search' = [search EXCEPT !.pc = "done"]
    /\ UNCHANGED <<mainVars, call, collect, boardCache>>

\* the request is answered with an error status: fetchJson throws and the
\* script exits with code 1
SearchFail ==
    /\ search.pc = "loop"
    /\ search.pageNo <= search.pages
    /\ search' = [search EXCEPT !.pc = "failed",
                                !.requested = Append(@, search.pageNo)]
    /\ UNCHANGED <<mainVars, call, collect, boardCache>>

SearchNext == SearchPage \/ SearchLoopEnd \/ SearchFail

SearchSpec == SearchInit /\ [][SearchNext]_vars

\* the page cap of the documentation: 4 pages for a keyword
PageCap == 4

\* a page is being requested
RequestsPage == Len(search'.requested) = Len(search.requested) + 1

\* C13: a search requests at most 4 pages and yields at most 4 x size rows.
C13_PagesCapped ==
    search.pc # "idle" =>
        /\ Len(search.requested) <= PageCap
        /\ Len(search.allRows) <= PageCap * search.size

\* C14: the pages are requested as 1, 2, ... in this order; a page is
\* requested only as the first one or after a page that was answered with
\* size entries; and a search that ended below its page limit ended on a page
\* answered with fewer than size entries.
C14_StopsOnShortPage ==
    /\ [](search.pc # "idle" =>
            \A i \in 1..Len(search.requested) : search.requested[i] = i)
    /\ [][RequestsPage =>
            (search.requested = <<>> \/ search.listLen = search.size)]_vars
    /\ [](search.pc = "done" /\ Len(search.requested) < MinOf(search.pages, PageCap)
            => search.listLen < search.size)

\* C15: the rows of a search hold every article id at most once.
C15_NoDuplicateCandidate ==
    search.pc # "idle" =>
        \A i, k \in 1..Len(search.allRows) :
            search.allRows[i] = search.allRows[k] => i = k

(* ------------------- the collection loop, link by link ------------------ *)

\* One run's loop over cafes, with collectArticleUrls and the loop over its
\* urls in detail.  A keyword is named by its position in job.keywords, a
\* link by a number.  An element of urls carries, next to its href, the
\* keyword whose search added it to the Set and its place among the hrefs of
\* that search.
NumKeywords == 2
MaxLinks == 2

MinUrls == 10

CollectCafeIds == {<<1>>, <<1, 2>>, <<2, 1>>}

\* the links a search page can point to
Links == {1, 2}

\* the hrefs one search page can hold, in document order
HrefLists == UNION {[1..n -> Links] : n \in 0..MaxLinks}

\* Math.max(10, Math.ceil(job.maxPosts / Math.max(1, cafeIds.length)))
MaxUrls(maxPosts, cafes) ==
    MaxOf(MinUrls, (maxPosts + MaxOf(1, cafes) - 1) \div MaxOf(1, cafes))

\* a Set that puts a new element first
SetAdd_Front(urls, u) ==
    IF \E n \in 1..Len(urls) : urls[n].href = u.href THEN urls ELSE <<u>> \o urls

\* Set.prototype.add: insertion order, an element already present stays
\* where it is
SetAdd(urls, u) ==
    IF \E n \in 1..Len(urls) : urls[n].href = u.href THEN urls ELSE Append(urls, u)

RECURSIVE AddHrefs(_, _, _, _, _)
\* the loop over hrefs (lines 108-114), from the r-th href on
AddHrefs(urls, hrefs, keyword, r, maxUrls) ==
    IF r > Len(hrefs) THEN urls
    ELSE LET added == SetAdd(urls, [href |-> hrefs[r], keyword |-> keyword, rank |-> r])
         IN IF Len(added) >= maxUrls THEN added
            ELSE AddHrefs(added, hrefs, keyword, r + 1, maxUrls)

CollectStarted(cafeIds, keywords, maxPosts) ==
    [pc |-> "search", cafeIds |-> cafeIds, keywords |-> keywords, maxPosts |-> maxPosts,
     i |-> 1, k |-> 1, urls |-> <<>>, next |-> 1, collected |-> 0, attempts |-> <<>>]

CollectInit ==
    /\ scrapeJob = [j \in Jobs |-> NewJob(NarrowConfig, j)]
    /\ scrapePost = EmptyBag
    /\ cancelKey = [j \in Jobs |-> NULL]
    /\ progressKey = [j \in Jobs |-> <<>>]
    /\ worker = [pc |-> "sleep", child |-> 0, failed |-> FALSE]
    /\ exec = [p \in Procs |-> IdleExec]
    /\ cancelAll = [pc |-> "idle", activeJobs |-> {}, cur |-> NoJob]
    /\ manualRuns = 0
    /\ search = NoSearch
    /\ call = NoCall
    /\ boardCache = NoBoardRequests
    /\ \E cafeIds \in CollectCafeIds : \E keywords \in 0..NumKeywords :
       \E maxPosts \in 1..MaxPosts :
          collect = CollectStarted(cafeIds, keywords, maxPosts)

\* collectArticleUrls: the search of the next keyword; page.goto can throw,
\* which ends the run
CollectSearch ==
    /\ collect.pc = "search"
    /\ collect.k <= collect.keywords
    /\ Len(collect.urls) < MaxUrls(collect.maxPosts, Len(collect.cafeIds))
    /\ \/ \E hrefs \in HrefLists :
            collect' = [collect EXCEPT
                !.urls = AddHrefs(@, hrefs, collect.k, 1,
                                  MaxUrls(collect.maxPosts, Len(collect.cafeIds))),
                !.k = @ + 1]
       \/ collect' = [collect EXCEPT !.pc = "failed"]
    /\ UNCHANGED <<mainVars, search, call, boardCache>>

\* collectArticleUrls returns Array.from(urls): keywords exhausted or the Set
\* full
CollectReturn ==
    /\ collect.pc = "search"
    /\ \/ collect.k > collect.keywords
       \/ Len(collect.urls) >= MaxUrls(collect.maxPosts, Len(collect.cafeIds))
    /\ collect' = [collect EXCEPT !.pc = "urls", !.next = 1]
    /\ UNCHANGED <<mainVars, search, call, boardCache>>

\* one iteration of the loop over urls: the next url is attempted; whether
\* the post is pushed is an input here
CollectAttempt ==
    /\ collect.pc = "urls"
    /\ collect.next <= Len(collect.urls)
    /\ collect.collected < collect.maxPosts
    /\ \E pushed \in BOOLEAN :
          collect' = [collect EXCEPT
              !.attempts = Append(@, [cafeIdx |-> collect.i,
                                      cafeId |-> collect.cafeIds[collect.i],
                                      href |-> collect.urls[collect.next].href,
                                      keyword |-> collect.urls[collect.next].keyword,
                                      rank |-> collect.urls[collect.next].rank]),
              !.next = @ + 1,
              !.collected = IF pushed THEN @ + 1 ELSE @]
    /\ UNCHANGED <<mainVars, search, call, boardCache>>

\* the loop over urls ends; the next cafe is taken unless the batch is full
\* or the cafes are exhausted
CollectUrlsDone ==
    /\ collect.pc = "urls"
    /\ collect.next > Len(collect.urls) \/ collect.collected >= collect.maxPosts
    /\ collect' =
          IF collect.collected >= collect.maxPosts \/ collect.i >= Len(collect.cafeIds)
          THEN [collect EXCEPT !.pc = "done"]
          ELSE [collect EXCEPT !.pc = "search", !.i = @ + 1, !.k = 1,
                               !.urls = <<>>, !.next = 1]
    /\ UNCHANGED <<mainVars, search, call, boardCache>>

CollectNext == CollectSearch \/ CollectReturn \/ CollectAttempt \/ CollectUrlsDone

CollectSpec == CollectInit /\ [][CollectNext]_vars

(* ---------------------- the pure functions, applied --------------------- *)

\* longest batch, largest view count, largest comment count of the inputs
MaxBatch == 3
MaxView == 2
MaxComment == 1

\* the posts of the inputs: only the fields the filters read
CountedPosts == [viewCount : 0..MaxView, commentCount : 0..MaxComment]

\* the batches of the inputs
Batches == UNION {[1..n -> CountedPosts] : n \in 0..MaxBatch}

\* the batch of scenario C: view counts 10, 20, 30, 40, 50
ScenarioC == [i \in 1..5 |-> [viewCount |-> 10 * i, commentCount |-> 0]]

PureInit ==
    /\ scrapeJob = [j \in Jobs |-> NewJob(NarrowConfig, j)]
    /\ scrapePost = EmptyBag
    /\ cancelKey = [j \in Jobs |-> NULL]
    /\ progressKey = [j \in Jobs |-> <<>>]
    /\ worker = [pc |-> "sleep", child |-> 0, failed |-> FALSE]
    /\ exec = [p \in Procs |-> IdleExec]
    /\ cancelAll = [pc |-> "idle", activeJobs |-> {}, cur |-> NoJob]
    /\ manualRuns = 0
    /\ search = NoSearch
    /\ call = NoCall
    /\ collect = NoCollect
    /\ boardCache = NoBoardRequests

\* run, lines 326-331: clampByAutoThreshold applied to a collected batch
CallClamp ==
    /\ call.fn = "none"
    /\ \E posts \in Batches \cup {ScenarioC} : \E useAutoFilter \in BOOLEAN :
       \E minView \in {NoThreshold} \cup 0..MaxView :
       \E minComment \in {NoThreshold} \cup 0..MaxComment :
          call' = [fn |-> "clampByAutoThreshold", posts |-> posts,
                   useAutoFilter |-> useAutoFilter, minView |-> minView,
                   minComment |-> minComment,
                   result |-> clampByAutoThreshold(posts, useAutoFilter, minView, minComment)]
    /\ UNCHANGED <<mainVars, search, collect, boardCache>>

\* longest text, longest include list and longest exclude list of the inputs
MaxTextLen == 3
MaxIncludeWords == 2
MaxExcludeWords == 1

\* the characters of the texts: an upper case letter, a lower case letter, a
\* blank
Chars == {"A", "b", " "}
Texts == UNION {[1..n -> Chars] : n \in 0..MaxTextLen}

\* the words of the lists: the empty word, a lower and an upper case letter,
\* two letters, two letters with a blank between them
Words == {<<>>, <<"a">>, <<"B">>, <<"a", "b">>, <<"a", " ", "b">>}
WordLists(longest) == UNION {[1..n -> Words] : n \in 0..longest}

\* String.prototype.toLowerCase, character by character
LowerChar(c) == CASE c = "A" -> "a" [] c = "B" -> "b" [] OTHER -> c
toLowerCase(str) == [i \in 1..Len(str) |-> LowerChar(str[i])]

IsSpace(c) == c = " "
NotSpace(c) == ~IsSpace(c)

\* text.toLowerCase() without the replace
Compact_KeepSpace(text) == toLowerCase(text)

\* text.replace(/\s+/g, "").toLowerCase()
Compact(text) == toLowerCase(SelectSeq(text, NotSpace))

\* String.prototype.includes
Includes(str, searchString) ==
    \E from \in 1..(Len(str) + 1) :
        /\ from + Len(searchString) - 1 <= Len(str)
        /\ SubSeq(str, from, from + Len(searchString) - 1) = searchString

\* words.some((word) => compact.includes(word.toLowerCase()))
SomeWordIn(words, compact) ==
    \E i \in 1..Len(words) : Includes(compact, toLowerCase(words[i]))

isAllowedByWords(text, includeWords, excludeWords) ==
    LET compact == Compact(text)
    IN IF Len(includeWords) > 0 /\ ~SomeWordIn(includeWords, compact) THEN FALSE
       ELSE IF Len(excludeWords) > 0 /\ SomeWordIn(excludeWords, compact) THEN FALSE
       ELSE TRUE

\* run, lines 307-310: isAllowedByWords applied to title and content
CallIsAllowed ==
    /\ call.fn = "none"
    /\ \E text \in Texts : \E includeWords \in WordLists(MaxIncludeWords) :
       \E excludeWords \in WordLists(MaxExcludeWords) :
          call' = [fn |-> "isAllowedByWords", text |-> text,
                   includeWords |-> includeWords, excludeWords |-> excludeWords,
                   result |-> isAllowedByWords(text, includeWords, excludeWords)]
    /\ UNCHANGED <<mainVars, search, collect, boardCache>>

\* latest date of the inputs
MaxDate == 2
\* fromDate, toDate, publishedAt: null
NoDate == -1
Dates == {NoDate} \cup 0..MaxDate

\* a date filter that also drops the posts published on a bound
DateAllowed_Exclusive(fromDate, toDate, publishedAt) ==
    /\ ~(fromDate # NoDate /\ publishedAt # NoDate /\ publishedAt <= fromDate)
    /\ ~(toDate # NoDate /\ publishedAt # NoDate /\ publishedAt >= toDate)

\* neither `continue` of lines 312-313 is taken
DateAllowed(fromDate, toDate, publishedAt) ==
    /\ ~(fromDate # NoDate /\ publishedAt # NoDate /\ publishedAt < fromDate)
    /\ ~(toDate # NoDate /\ publishedAt # NoDate /\ publishedAt > toDate)

\* run, lines 312-313: the date filter applied to a parsed post
CallDateFilter ==
    /\ call.fn = "none"
    /\ \E fromDate \in Dates : \E toDate \in Dates : \E publishedAt \in Dates :
          call' = [fn |-> "dateFilter", fromDate |-> fromDate, toDate |-> toDate,
                   publishedAt |-> publishedAt,
                   result |-> DateAllowed(fromDate, toDate, publishedAt)]
    /\ UNCHANGED <<mainVars, search, collect, boardCache>>

\* ---------------------------------------------------------------------------
\* Sheet sink: clampForSheetCell.  A text is a sequence of one-character
\* strings.  TextOfLength(n) is the text whose i-th character names its own
\* position, so that two different slices of it are different sequences.
MaxOver == 2

DefaultMaxChars == 45000

TextOfLength(n) == [i \in 1..n |-> ToString(i)]

SheetLengths ==
    (0..MaxOver) \cup ((DefaultMaxChars - MaxOver)..(DefaultMaxChars + MaxOver))

RECURSIVE DecimalDigits(_)
DecimalDigits(n) ==
    IF n < 10 THEN <<ToString(n)>>
    ELSE DecimalDigits(n \div 10) \o <<ToString(n % 10)>>

SuffixHead == <<"\n", "\n", "[", "T", "R", "U", "N", "C", "A", "T", "E", "D", ":", " ">>

SuffixTail == <<" ", "c", "h", "a", "r", "s", "]">>

TruncationSuffix(length) == SuffixHead \o DecimalDigits(length) \o SuffixTail

Slice(s, end) == SubSeq(s, 1, MinOf(end, Len(s)))

clampForSheetCell_NoRoom(input, maxChars) ==
    IF Len(input) <= maxChars THEN input
    ELSE Slice(input, maxChars) \o TruncationSuffix(Len(input))

clampForSheetCell(input, maxChars) ==
    LET s == input
        suffix == TruncationSuffix(Len(s))
    IN IF Len(s) <= maxChars THEN s
       ELSE Slice(s, MaxOf(0, maxChars - Len(suffix))) \o suffix

CallClampForSheetCell ==
    /\ call.fn = "none"
    /\ \E length \in SheetLengths :
          call' = [fn |-> "clampForSheetCell", input |-> TextOfLength(length),
                   maxChars |-> DefaultMaxChars,
                   result |-> clampForSheetCell(TextOfLength(length), DefaultMaxChars)]
    /\ UNCHANGED <<mainVars, search, collect, boardCache>>

\* Sheet sink: the row sendRowsToGoogleSheet transmits for one post row.  Only
\* the three clamped fields are modelled; the other fields are copied as is.
CommentLengths == (20000 - MaxOver)..(20000 + MaxOver)

SheetPostPayload(bodyLen, commentsLen, contentLen) ==
    [bodyText |-> TextOfLength(bodyLen), commentsText |-> TextOfLength(commentsLen),
     contentText |-> TextOfLength(contentLen)]

SafePostRow(r) ==
    [r EXCEPT !.bodyText = clampForSheetCell(r.bodyText, DefaultMaxChars),
              !.commentsText = clampForSheetCell(r.commentsText, DefaultMaxChars),
              !.contentText = clampForSheetCell(r.contentText, DefaultMaxChars)]

CallSendRows ==
    /\ call.fn = "none"
    /\ \E bodyLen \in 0..MaxOver : \E commentsLen \in CommentLengths :
       \E contentLen \in 0..MaxOver :
          LET r == SheetPostPayload(bodyLen, commentsLen, contentLen)
          IN call' = [fn |-> "sendRowsToGoogleSheet", row |-> r, safeRow |-> SafePostRow(r)]
    /\ UNCHANGED <<mainVars, search, collect, boardCache>>

\* parsePost, lines 135-160: the choice of the content element.  A page is
\* given by what each selector of contentCandidates finds: no element, or a
\* first element with its innerText.
contentCandidates ==
    <<".se-main-container", "#tbody", "#postContent", ".ContentRenderer", "article", "body">>

MinContentLength == 20

\* the text of n characters under the i-th selector; its characters are named
\* so that the texts of different elements differ
BodyText(i, n) == [j \in 1..n |-> ToString(100 * i + j)]

NoElement == [count |-> 0, innerText |-> <<>>]

\* what the i-th selector can find: nothing, a text that is one character
\* short once its surrounding white space is trimmed, a text just long enough
ElementStates(i) ==
    {NoElement,
     [count |-> 1, innerText |-> <<" ">> \o BodyText(i, MinContentLength - 1) \o <<" ">>],
     [count |-> 1, innerText |-> <<" ">> \o BodyText(i, MinContentLength)]}

\* a page: one state for each of the six selectors
Pages ==
    {<<e1, e2, e3, e4, e5, e6>> :
        e1 \in ElementStates(1), e2 \in ElementStates(2), e3 \in ElementStates(3),
        e4 \in ElementStates(4), e5 \in ElementStates(5), e6 \in ElementStates(6)}

\* no trimming at all
Trim_None(text) == text

RECURSIVE TrimStart(_)
TrimStart(text) ==
    IF text # <<>> /\ IsSpace(Head(text)) THEN TrimStart(Tail(text)) ELSE text

RECURSIVE TrimEnd(_)
TrimEnd(text) ==
    IF text # <<>> /\ IsSpace(text[Len(text)])
    THEN TrimEnd(SubSeq(text, 1, Len(text) - 1)) ELSE text

\* String.prototype.trim
Trim(text) == TrimEnd(TrimStart(text))

RECURSIVE SelectContent(_, _)
\* the loop over contentCandidates from the i-th selector on; the result is
\* contentText and the selector whose element gave it (0: none)
SelectContent(page, i) ==
    IF i > Len(contentCandidates) THEN [contentText |-> <<>>, selector |-> 0]
    ELSE IF page[i].count = 0 THEN SelectContent(page, i + 1)
    ELSE LET text == Trim(page[i].innerText)
         IN IF Len(text) < MinContentLength THEN SelectContent(page, i + 1)
            ELSE [contentText |-> text, selector |-> i]

\* parsePost up to the return of line 159: null (<<>>) when contentText is
\* empty
ParseContent(page) ==
    LET chosen == SelectContent(page, 1)
    IN IF chosen.contentText = <<>> THEN [threw |-> NULL, value |-> <<>>]
       ELSE [threw |-> NULL, value |-> <<chosen>>]

CallParseContent ==
    /\ call.fn = "none"
    /\ \E page \in Pages :
          call' = [fn |-> "parsePost", page |-> page, result |-> ParseContent(page)]
    /\ UNCHANGED <<mainVars, search, collect, boardCache>>

\* run, lines 326-333: the final batch of a collected batch under a job's
\* filter settings and maxPosts
CallFinalPosts ==
    /\ call.fn = "none"
    /\ \E posts \in Batches \cup {ScenarioC} : \E useAutoFilter \in BOOLEAN :
       \E minView \in {NoThreshold} \cup 0..MaxView :
       \E minComment \in {NoThreshold} \cup 0..MaxComment :
          LET cfg == [useAutoFilter |-> useAutoFilter, minViewCount |-> minView,
                      minCommentCount |-> minComment, maxPosts |-> MaxBatch - 1]
          IN call' = [fn |-> "finalPosts", collected |-> posts, config |-> cfg,
                      result |-> FinalPosts(posts, cfg)]
    /\ UNCHANGED <<mainVars, search, collect, boardCache>>

PureNext ==
    \/ CallClamp
    \/ CallIsAllowed
    \/ CallDateFilter
    \/ CallClampForSheetCell
    \/ CallSendRows
    \/ CallParseContent
    \/ CallFinalPosts

PureSpec == PureInit /\ [][PureNext]_vars

(* ----------------------- api/cafe-boards: the cache ---------------------- *)
BOARD_CACHE_TTL_MS == 5 * 60 * 1000

\* advances of the clock in one behaviour, ids of one request
MaxClockSteps == 2
MaxIds == 2

\* the ids a request can carry: both letter cases, a second cafe, a blank
RawIds == {<<"a">>, <<"A">>, <<"b">>, <<" ">>}

\* the requests of the model name every cafe once
CafeIdInputs ==
    {input \in UNION {[1..n -> RawIds] : n \in 0..MaxIds} :
        \A i, j \in 1..Len(input) :
            toLowerCase(input[i]) = toLowerCase(input[j]) => i = j}

\* the board names the searches of one request can return, sorted
BoardLists == {<<>>, <<"free">>}

\* the gaps between two readings of Date.now()
ClockGaps == {1, BOARD_CACHE_TTL_MS}

NonEmpty(str) == str # <<>>

\* parseStringArray of an array: String(value || "").trim(), filter(Boolean)
parseStringArray(input) ==
    SelectSeq([i \in 1..Len(input) |-> Trim(input[i])], NonEmpty)

normalizeCafeId(value) == toLowerCase(Trim(value))

\* UTF-16 code units of the characters of the model
CharCode(c) ==
    CASE c = " " -> 32 [] c = "A" -> 65 [] c = "B" -> 66
      [] c = "a" -> 97 [] c = "b" -> 98 [] c = "|" -> 124

RECURSIVE StringLess(_, _)
\* the order of Array.prototype.sort() without comparator: by code units
StringLess(a, b) ==
    IF a = <<>> THEN b # <<>>
    ELSE IF b = <<>> THEN FALSE
    ELSE IF Head(a) = Head(b) THEN StringLess(Tail(a), Tail(b))
    ELSE CharCode(Head(a)) < CharCode(Head(b))

RECURSIVE InsertString(_, _)
InsertString(x, s) ==
    IF s = <<>> THEN <<x>>
    ELSE IF ~StringLess(Head(s), x) THEN <<x>> \o s
    ELSE <<Head(s)>> \o InsertString(x, Tail(s))

RECURSIVE SortStrings(_)
SortStrings(s) == IF s = <<>> THEN <<>> ELSE InsertString(Head(s), SortStrings(Tail(s)))

RECURSIVE Join(_, _)
\* Array.prototype.join
Join(parts, sep) ==
    IF parts = <<>> THEN <<>>
    ELSE IF Len(parts) = 1 THEN Head(parts)
    ELSE Head(parts) \o sep \o Join(Tail(parts), sep)

makeBoardCacheKey(cafeIds) ==
    Join(SortStrings(SelectSeq([i \in 1..Len(cafeIds) |-> normalizeCafeId(cafeIds[i])],
                               NonEmpty)),
         <<"|">>)

\* an entry that is dropped already at its expiry time
Expired_AtExpiry(now, cached) == now >= cached.expiresAt

\* getCachedBoards, line 201
Expired(now, cached) == now > cached.expiresAt

\* Map.prototype.delete
MapDelete(map, key) == [k \in DOMAIN map \ {key} |-> map[k]]

\* Map.prototype.set
MapSet(map, key, value) == [k \in DOMAIN map \cup {key} |-> IF k = key THEN value ELSE map[k]]

\* getCachedBoards: the value returned (NULL: null, else a copy of the
\* list) and BOARD_CACHE after the call
getCachedBoards(map, cacheKey, now) ==
    IF cacheKey \notin DOMAIN map THEN [boards |-> NULL, map |-> map]
    ELSE IF Expired(now, map[cacheKey])
         THEN [boards |-> NULL, map |-> MapDelete(map, cacheKey)]
         ELSE [boards |-> map[cacheKey].boards, map |-> map]

\* setCachedBoards: BOARD_CACHE after the call
setCachedBoards(map, cacheKey, boards, now) ==
    MapSet(map, cacheKey, [boards |-> boards, expiresAt |-> now + BOARD_CACHE_TTL_MS])

Answer(kind, key, data) == [kind |-> kind, key |-> key, data |-> data]

BoardsInit ==
    /\ scrapeJob = [j \in Jobs |-> NewJob(NarrowConfig, j)]
    /\ scrapePost = EmptyBag
    /\ cancelKey = [j \in Jobs |-> NULL]
    /\ progressKey = [j \in Jobs |-> <<>>]
    /\ worker = [pc |-> "sleep", child |-> 0, failed |-> FALSE]
    /\ exec = [p \in Procs |-> IdleExec]
    /\ cancelAll = [pc |-> "idle", activeJobs |-> {}, cur |-> NoJob]
    /\ manualRuns = 0
    /\ search = NoSearch
    /\ call = NoCall
    /\ collect = NoCollect
    /\ boardCache = NoBoardRequests

\* POST up to the lookup: 401 without a user, 400 on a body that is no JSON,
\* the empty answer without ids, the cached list on a hit; on a miss the
\* request goes on to the searches
BoardsLookup ==
    /\ BagCardinality(boardCache.inFlight) < NumRequests
    /\ \/ \E refused \in {"UNAUTHORIZED", "BAD_JSON"} :
            boardCache' = [boardCache EXCEPT !.last = Answer(refused, <<>>, <<>>)]
       \/ \E input \in CafeIdInputs :
            LET cafeIds == parseStringArray(input)
                cacheKey == makeBoardCacheKey(cafeIds)
                cached == getCachedBoards(boardCache.map, cacheKey, boardCache.now)
            IN boardCache' =
                 IF Len(cafeIds) = 0 THEN [boardCache EXCEPT !.last = Answer("empty", <<>>, <<>>)]
                 ELSE IF cached.boards # NULL
                      THEN [boardCache EXCEPT !.last = Answer("hit", cacheKey, cached.boards)]
                      ELSE [boardCache EXCEPT !.map = cached.map,
                                              !.inFlight = @ (+) SetToBag({cafeIds}),
                                              !.last = Answer("miss", cacheKey, <<>>)]
    /\ UNCHANGED <<mainVars, search, call, collect>>

\* POST after the searches: the sorted names are stored under the key of the
\* request and returned
BoardsStore ==
    \E cafeIds \in BagToSet(boardCache.inFlight) : \E boardNames \in BoardLists :
        LET cacheKey == makeBoardCacheKey(cafeIds)
        IN /\ boardCache' = [boardCache EXCEPT
                 !.map = setCachedBoards(@, cacheKey, boardNames, boardCache.now),
                 !.stored = MapSet(@, cacheKey, [boards |-> boardNames, at |-> boardCache.now]),
                 !.inFlight = @ (-) SetToBag({cafeIds}),
                 !.last = Answer("fresh", cacheKey, boardNames)]
           /\ UNCHANGED <<mainVars, search, call, collect>>

\* POST, the outer catch: resolveCafeNumericId throws, the answer is 500 and
\* nothing is stored
BoardsFail ==
    \E cafeIds \in BagToSet(boardCache.inFlight) :
        /\ boardCache' = [boardCache EXCEPT
              !.inFlight = @ (-) SetToBag({cafeIds}),
              !.last = Answer("failed", <<>>, <<>>)]
        /\ UNCHANGED <<mainVars, search, call, collect>>

\* time passes between two readings of Date.now()
ClockTick ==
    /\ boardCache.steps < MaxClockSteps
    /\ \E gap \in ClockGaps :
        boardCache' = [boardCache EXCEPT !.now = @ + gap, !.steps = @ + 1]
    /\ UNCHANGED <<mainVars, search, call, collect>>

BoardsNext ==
    \/ BoardsLookup
    \/ BoardsStore
    \/ BoardsFail
    \/ ClockTick

BoardsSpec == BoardsInit /\ [][BoardsNext]_vars

\* v lies below the median of the values: below the middle value of an odd
\* number of values, below the mean of the two middle values of an even number
BelowMedian(v, values) ==
    LET n == Len(values)
        sorted == SortAsc(values)
    IN IF n = 0 THEN FALSE
       ELSE IF n % 2 = 1 THEN v < sorted[(n + 1) \div 2]
       ELSE 2 * v < sorted[n \div 2] + sorted[n \div 2 + 1]

ViewsOf(posts) == [i \in 1..Len(posts) |-> posts[i].viewCount]
CommentsOf(posts) == [i \in 1..Len(posts) |-> posts[i].commentCount]

\* C16: with useAutoFilter on and no explicit threshold the result is the
\* batch, in its order, without the posts whose viewCount lies below the
\* median viewCount or whose commentCount lies below the median commentCount;
\* with one explicit threshold the other metric is still cut at its median.
C16_AutoFilterUsesMedian ==
    (call.fn = "clampByAutoThreshold" /\ call.useAutoFilter) =>
        LET posts == call.posts
            KeepView(p) == ~BelowMedian(p.viewCount, ViewsOf(posts))
            KeepComment(p) == ~BelowMedian(p.commentCount, CommentsOf(posts))
            KeepBoth(p) == KeepView(p) /\ KeepComment(p)
            kept == {call.result[i] : i \in 1..Len(call.result)}
        IN /\ (call.minView = NoThreshold /\ call.minComment = NoThreshold)
                => call.result = SelectSeq(posts, KeepBoth)
           /\ call.minView = NoThreshold => \A p \in kept : KeepView(p)
           /\ call.minComment = NoThreshold => \A p \in kept : KeepComment(p)

\* scenario C has been applied: the posts with 10 and 20 views are dropped
C16_Witness ==
    /\ call.fn = "clampByAutoThreshold"
    /\ call.posts = ScenarioC
    /\ call.useAutoFilter /\ call.minView = NoThreshold /\ call.minComment = NoThreshold
    /\ ViewsOf(call.result) = <<30, 40, 50>>

\* C17: the threshold of a metric is its explicit value when one is given,
\* whether the auto filter is on or off, else the median when the auto filter
\* is on, else none; the result is the batch, in its order, without the posts
\* below a threshold, and the batch itself when there is no threshold.
C17_ExplicitThresholdWins ==
    call.fn = "clampByAutoThreshold" =>
        LET posts == call.posts
            KeepView(p) ==
                IF call.minView # NoThreshold THEN p.viewCount >= call.minView
                ELSE IF call.useAutoFilter THEN ~BelowMedian(p.viewCount, ViewsOf(posts))
                ELSE TRUE
            KeepComment(p) ==
                IF call.minComment # NoThreshold THEN p.commentCount >= call.minComment
                ELSE IF call.useAutoFilter THEN ~BelowMedian(p.commentCount, CommentsOf(posts))
                ELSE TRUE
            Keep(p) == KeepView(p) /\ KeepComment(p)
        IN /\ call.result = SelectSeq(posts, Keep)
           /\ (~call.useAutoFilter /\ call.minView = NoThreshold
                    /\ call.minComment = NoThreshold) => call.result = posts

\* the auto filter is on, the explicit minView is given, and a post below
\* the median viewCount has been kept
C17_Witness ==
    /\ call.fn = "clampByAutoThreshold"
    /\ call.useAutoFilter /\ call.minView # NoThreshold
    /\ \E i \in 1..Len(call.result) :
          BelowMedian(call.result[i].viewCount, ViewsOf(call.posts))

\* the characters of the text that are not white space, in their order
Stripped(text) == SelectSeq(text, NotSpace)

\* the word occurs in the text, disregarding case
Occurs(word, text) ==
    \E off \in 0..(Len(text) - Len(word)) :
        \A i \in 1..Len(word) : LowerChar(word[i]) = LowerChar(text[off + i])

\* C18: a text is admitted exactly when the include list is empty or one of
\* its words occurs, case-insensitively, in the text without its white space,
\* and no word of the exclude list occurs there.
C18_WordFilter ==
    call.fn = "isAllowedByWords" =>
        LET text == Stripped(call.text)
            included == \/ call.includeWords = <<>>
                        \/ \E i \in 1..Len(call.includeWords) : Occurs(call.includeWords[i], text)
            excluded == \E i \in 1..Len(call.excludeWords) : Occurs(call.excludeWords[i], text)
        IN /\ call.result = (included /\ ~excluded)
           /\ (call.includeWords = <<>> /\ call.excludeWords = <<>>) => call.result

\* a text in which a word of each list occurs, the include word across a
\* blank of the text, has been rejected
C18_Witness ==
    /\ call.fn = "isAllowedByWords"
    /\ call.text = <<"A", " ", "b">>
    /\ call.includeWords = <<<<"a", "b">>>>
    /\ call.excludeWords = <<<<"B">>>>
    /\ call.result = FALSE

\* C19: a post of unknown publishedAt passes the date filter; a post of known
\* publishedAt passes exactly when it is not before fromDate and not after
\* toDate, an absent bound admitting every date.
C19_DateFilter ==
    call.fn = "dateFilter" =>
        /\ call.publishedAt = NoDate => call.result
        /\ call.publishedAt # NoDate =>
            (call.result =
                (/\ call.fromDate = NoDate \/ call.publishedAt >= call.fromDate
                 /\ call.toDate = NoDate \/ call.publishedAt <= call.toDate))

\* a post published on the day that is both bounds has passed
C19_Witness ==
    /\ call.fn = "dateFilter"
    /\ call.publishedAt # NoDate
    /\ call.publishedAt = call.fromDate /\ call.publishedAt = call.toDate
    /\ call.result

\* C20: the step of an executor that has committed its batch is the terminal
\* write, whether the push to the sheet succeeded or failed: the job becomes
\* SUCCESS, resultCount is the number of creates, sheetSynced is that number
\* or, after a failed push, 0, and the stored posts are left as they are.
C20_SinkFailureIsCaught ==
    [][\A p \in Procs :
        (/\ exec[p].pc = "commit" /\ exec'[p] # exec[p]
         /\ exec[p].commitIdx > Len(exec[p].finalPosts))
        => /\ exec'[p].pc = "done"
           /\ scrapeJob'[exec[p].job].status = "SUCCESS"
           /\ scrapeJob'[exec[p].job].resultCount = exec[p].savedCount
           /\ scrapeJob'[exec[p].job].sheetSynced \in {0, exec[p].savedCount}
           /\ scrapePost' = scrapePost]_vars

\* a run that created a post and whose push failed has ended SUCCESS with
\* sheetSynced 0, its post stored
C20_Witness ==
    \E p \in Procs :
        /\ exec[p].pc = "done"
        /\ exec[p].savedCount >= 1
        /\ scrapeJob[exec[p].job].status = "SUCCESS"
        /\ scrapeJob[exec[p].job].sheetSynced = 0
        /\ scrapeJob[exec[p].job].resultCount = exec[p].savedCount
        /\ Cardinality(RowsCreatedBy(exec[p].job)) = exec[p].savedCount

\* ---------------------------------------------------------------------------
\* C21: a text of length L given to the sink with the limit of 45,000 is
\* transmitted unchanged when L <= 45,000; when L > 45,000 the transmitted text
\* has length exactly 45,000, ends with the truncation marker that contains L,
\* and what precedes the marker is a prefix of the original text.
EndsWithMarkerOf(text, length) ==
    \E k \in 0..Len(text) :
        /\ SubSeq(text, k + 1, Len(text)) =
               SuffixHead \o DecimalDigits(length) \o SuffixTail
        /\ \A i \in 1..k : i <= length /\ text[i] = TextOfLength(length)[i]

C21_ClampForSheetCell ==
    call.fn = "clampForSheetCell" =>
        LET L == Len(call.input)
        IN /\ L <= 45000 => call.result = call.input
           /\ L > 45000 =>
                 /\ Len(call.result) = 45000
                 /\ EndsWithMarkerOf(call.result, L)

C21_Witness ==
    /\ call.fn = "clampForSheetCell"
    /\ Len(call.input) > 45000
    /\ call.result # call.input

\* ---------------------------------------------------------------------------
\* C22: in the row transmitted to the sink, bodyText and contentText have at
\* most 45,000 characters and commentsText has at most 20,000 characters.
C22_CommentsCappedAt20000 ==
    call.fn = "sendRowsToGoogleSheet" =>
        /\ Len(call.safeRow.bodyText) <= 45000
        /\ Len(call.safeRow.contentText) <= 45000
        /\ Len(call.safeRow.commentsText) <= 20000

\* ---------------------------------------------------------------------------
\* the executor p issues a POST to the sink in this step
IssuesPost(p) == exec'[p].posted # exec[p].posted /\ exec'[p].posted # <<>>

\* the rows of a request body field, as a set
RowsOf(rows) == {rows[i] : i \in 1..Len(rows)}

C25_FailedCandidateIsSkipped ==
    [][\A p \in Procs :
          (exec[p].pc = "url" /\ exec'[p] # exec[p] /\ exec'[p].failed)
          => /\ exec'[p].pc = "url"
             /\ exec'[p].urlsLeft = exec[p].urlsLeft - 1
             /\ exec'[p].collected = exec[p].collected
             /\ exec'[p].err = NULL
             /\ scrapeJob' = scrapeJob]_vars

\* an extraction has just failed in a RUNNING job that has a post collected
\* and whose next candidate is about to be attempted
C25_Witness ==
    \E p \in Procs :
        /\ exec[p].pc = "url" /\ exec[p].failed
        /\ exec[p].urlsLeft > 0 /\ ~BatchFull(p)
        /\ exec[p].collected # <<>>
        /\ JobOf(p).status = "RUNNING"

\* C26: every extraction attempt, whatever its outcome (admitted, skipped,
\* failed, rejected by a filter), is followed by the politeness delay.
C26_DelayAfterEveryAttempt ==
    [][\A p \in Procs : AttemptStep(p) => exec'[p].slept]_vars

\* C27: a post is persisted only in the commit phase, one row at a time and
\* with the id of the job whose executor creates it; rows already stored are
\* neither changed nor removed; a run that fails during collection has
\* persisted no post.
C27_PostsCreatedInCommitOnly ==
    /\ [][scrapePost' # scrapePost =>
            \E p \in Procs :
                /\ exec[p].pc = "create"
                /\ exec[p].commitIdx \in 1..Len(exec[p].finalPosts)
                /\ exec[p].collected = <<>>
                /\ \E row \in BagToSet(scrapePost') :
                      /\ row.jobId = exec[p].job
                      /\ row.contentText = exec[p].finalPosts[exec[p].commitIdx].contentText
                      /\ scrapePost' = scrapePost (+) SetToBag({row})]_vars
    /\ [](\A p \in Procs :
            (\/ exec[p].pc \in {"start", "cafe", "url"}
             \/ exec[p].pc = "catch" /\ exec[p].err \in {ErrNoSession, ErrNavigation})
            => RowsCreatedBy(exec[p].job) = {})
    /\ [](\A j \in Jobs :
            (scrapeJob[j].status = "FAILED"
             /\ scrapeJob[j].errorMessage \in {ErrNoSession, ErrNavigation})
            => RowsCreatedBy(j) = {})

\* a job has failed during collection and owns no row, while the store holds
\* a row that another job has created
C27_Witness ==
    /\ \E j \in Jobs :
          /\ scrapeJob[j].status = "FAILED"
          /\ scrapeJob[j].errorMessage = ErrNavigation
          /\ RowsCreatedBy(j) = {}
    /\ \E j \in Jobs : RowsCreatedBy(j) # {}

\* ---------------------------------------------------------------------------
\* attempt a comes before attempt b in the order cafe, keyword, search result
Precedes(a, b) ==
    \/ a.cafeIdx < b.cafeIdx
    \/ a.cafeIdx = b.cafeIdx /\ a.keyword < b.keyword
    \/ a.cafeIdx = b.cafeIdx /\ a.keyword = b.keyword /\ a.rank < b.rank

\* C24: candidates are attempted one at a time, cafes in the order supplied,
\* within a cafe keywords in the order supplied, within a keyword in the order
\* of the search result: no candidate of a later cafe or keyword is attempted
\* before an attempted candidate of an earlier one.
C24_AttemptsInOrder ==
    /\ [](collect.pc # "idle" =>
            \A m, n \in 1..Len(collect.attempts) :
                /\ collect.attempts[m].cafeId = collect.cafeIds[collect.attempts[m].cafeIdx]
                /\ m < n => Precedes(collect.attempts[m], collect.attempts[n]))
    /\ [][collect.pc # "idle" =>
            \/ collect'.attempts = collect.attempts
            \/ /\ Len(collect'.attempts) = Len(collect.attempts) + 1
               /\ SubSeq(collect'.attempts, 1, Len(collect.attempts)) = collect.attempts]_vars

\* candidates of two cafes given as <<2, 1>> and of two keywords have been
\* attempted, the second keyword's search having returned a link again that
\* the first had returned
C24_Witness ==
    /\ collect.pc = "done"
    /\ collect.cafeIds = <<2, 1>>
    /\ Len(collect.attempts) >= 4
    /\ \E m, n \in 1..Len(collect.attempts) :
          /\ collect.attempts[m].cafeIdx = 2 /\ collect.attempts[n].cafeIdx = 2
          /\ collect.attempts[m].keyword = 1 /\ collect.attempts[n].keyword = 2
          /\ collect.attempts[n].rank = 2

\* ---------------------------------------------------------------------------
\* places of the characters of a text that are not white space
InkOf(text) == {n \in 1..Len(text) : text[n] # " "}

Lowest(S) == CHOOSE n \in S : \A m \in S : n <= m
Highest(S) == CHOOSE n \in S : \A m \in S : n >= m

\* the i-th selector finds an element whose text, less the white space around
\* it, has at least 20 characters
Qualifies(page, i) ==
    /\ page[i].count > 0
    /\ InkOf(page[i].innerText) # {}
    /\ Highest(InkOf(page[i].innerText)) - Lowest(InkOf(page[i].innerText)) + 1 >= 20

\* C29: the content of a post is the trimmed text of the first selector, in
\* the fixed order, whose element exists and whose trimmed text has at least
\* 20 characters; when no selector qualifies parsePost returns no post and
\* raises no error.
C29_FirstQualifyingSelector ==
    call.fn = "parsePost" =>
        LET good == {i \in 1..6 : Qualifies(call.page, i)}
        IN /\ call.result.threw = NULL
           /\ good = {} => call.result.value = <<>>
           /\ good # {} =>
                 /\ Len(call.result.value) = 1
                 /\ call.result.value[1].selector = Lowest(good)
                 /\ LET text == call.page[Lowest(good)].innerText
                    IN call.result.value[1].contentText =
                          SubSeq(text, Lowest(InkOf(text)), Highest(InkOf(text)))

\* the first selector finds a text that is too short, the second nothing, the
\* third and the fourth qualify, and the third one's text is the content
C29_Witness ==
    /\ call.fn = "parsePost"
    /\ call.page[1].count = 1 /\ ~Qualifies(call.page, 1)
    /\ call.page[2].count = 0
    /\ Qualifies(call.page, 3) /\ Qualifies(call.page, 4)
    /\ call.result.value # <<>>
    /\ call.result.value[1].selector = 3

CancelledWhileQueued(j) ==
    /\ scrapeJob[j].status = "CANCELLED"
    /\ scrapeJob[j].errorMessage = "cancelled by user (queued)"

\* C30: a job that was cancelled while QUEUED is not executed afterwards,
\* whatever the interleaving of cancel-all with a tick: no executor sets it
\* RUNNING and none persists a post for it.
C30_CancelledQueuedNeverRuns ==
    [][\A p \in Procs : (Active(p) /\ CancelledWhileQueued(exec[p].job))
            => /\ ~SetsRunning(p)
               /\ scrapePost' = scrapePost]_vars

\* ---------------------------------------------------------------------------
\* the cancel-all request handles the settings of the job it has just updated
CancelSettingsStep == cancelAll.pc = "settings" /\ cancelAll'.pc # "settings"

\* the document stored for job j, {} when the key is absent
StoredDoc(j) == IF progressKey[j] = <<>> THEN EmptyDoc ELSE progressKey[j][1]

\* what C31 says of the job table and of the keys of a job read as QUEUED
CancelAllFrame ==
    /\ [][\A j \in Jobs :
            scrapeJob'[j] # scrapeJob[j] =>
                /\ \E job \in cancelAll.activeJobs : job.id = j
                /\ scrapeJob[j].status \notin TerminalStatuses
                /\ scrapeJob'[j].status = "CANCELLED"
                /\ scrapeJob'[j].completedAt = SET]_vars
    /\ [][(cancelAll.pc # "idle" /\ cancelAll'.pc = "idle") =>
            \A j \in Jobs : scrapeJob'[j].status \in TerminalStatuses]_vars
    /\ [][(CancelSettingsStep /\ cancelAll.cur.status = "QUEUED") =>
            /\ cancelKey'[cancelAll.cur.id] = NULL
            /\ progressKey'[cancelAll.cur.id] = <<>>]_vars
    /\ [][CancelSettingsStep =>
            \A j \in Jobs : j # cancelAll.cur.id =>
                cancelKey'[j] = cancelKey[j] /\ progressKey'[j] = progressKey[j]]_vars

C32_TerminalRowIsComplete ==
    \A j \in Jobs :
        /\ scrapeJob[j].status \in TerminalStatuses => scrapeJob[j].completedAt = SET
        /\ scrapeJob[j].status = "SUCCESS" =>
              /\ scrapeJob[j].sheetSynced <= scrapeJob[j].resultCount
              /\ scrapeJob[j].resultCount <= scrapeJob[j].config.maxPosts

\* one job has ended SUCCESS with a row created and the push to the sheet
\* failed, another has been cancelled
C32_Witness ==
    \E j, k \in Jobs :
        /\ scrapeJob[j].status = "SUCCESS"
        /\ scrapeJob[j].sheetSynced = 0
        /\ scrapeJob[j].resultCount = scrapeJob[j].config.maxPosts
        /\ scrapeJob[k].status = "CANCELLED"

\* ---------------------------------------------------------------------------
\* C33: sheetSynced is greater than 0 only if a POST with that many rows was
\* sent to the sink and answered with success; a run for which no endpoint is
\* configured attempts no send and stores sheetSynced 0.
C33_NoEndpointNoSync ==
    [][\A p \in Procs : (WritesSuccess(p) /\ ~exec'[p].webhookSet)
            => /\ exec'[p].posted = <<>>
               /\ scrapeJob'[exec[p].job].sheetSynced = 0]_vars

\* ---------------------------------------------------------------------------
\* C34: the final batch is an order-preserving subsequence of the collected
\* batch with at most maxPosts posts, each of which meets the effective view
\* and comment thresholds (the explicit one, else the median under the auto
\* filter, else none); a post that meets both is dropped only by the
\* truncation to maxPosts.
C34_FinalBatch ==
    call.fn = "finalPosts" =>
        LET posts == call.collected
            cfg == call.config
            MeetsView(p) ==
                IF cfg.minViewCount # NoThreshold THEN p.viewCount >= cfg.minViewCount
                ELSE cfg.useAutoFilter => ~BelowMedian(p.viewCount, ViewsOf(posts))
            MeetsComment(p) ==
                IF cfg.minCommentCount # NoThreshold
                THEN p.commentCount >= cfg.minCommentCount
                ELSE cfg.useAutoFilter => ~BelowMedian(p.commentCount, CommentsOf(posts))
            Meets(p) == MeetsView(p) /\ MeetsComment(p)
            passing == {i \in 1..Len(posts) : Meets(posts[i])}
            final == call.result
        IN /\ Len(final) <= cfg.maxPosts
           /\ \A n \in 1..Len(final) : Meets(final[n])
           /\ Len(final) = IF Cardinality(passing) < cfg.maxPosts
                           THEN Cardinality(passing) ELSE cfg.maxPosts
           /\ \A n \in 1..Len(final) :
                 \E i \in passing :
                    /\ final[n] = posts[i]
                    /\ Cardinality({k \in passing : k < i}) = n - 1

\* three of five collected posts meet the median threshold and the final
\* batch holds the first two of them
C34_Witness ==
    /\ call.fn = "finalPosts"
    /\ Len(call.collected) = 5
    /\ call.config.useAutoFilter /\ call.config.minViewCount = NoThreshold
    /\ Len(call.result) = 2
    /\ call.result[1] = call.collected[3] /\ call.result[2] = call.collected[4]

\* ---------------------------------------------------------------------------
\* C35: an error raised inside a tick is caught and does not end the loop:
\* the worker is always at a point of its loop, a failed tick leaves it at
\* the sleep of the loop with nothing else changed, and another tick follows.
C35_TickErrorIsCaught ==
    /\ [](worker.pc \in {"sleep", "counted", "waiting"})
    /\ [][(worker'.failed /\ worker' # worker) =>
            /\ worker'.pc = "sleep"
            /\ UNCHANGED <<scrapeJob, scrapePost, cancelKey, progressKey, exec, cancelAll>>]_vars
    /\ [](worker.pc = "sleep" => ENABLED TickCount)
    /\ worker.failed ~> ~worker.failed

\* a tick has failed after it had counted no RUNNING job, a job being QUEUED
C35_Witness ==
    /\ worker.failed /\ worker.pc = "sleep"
    /\ RunningCount = 0
    /\ JobsWithStatus("QUEUED") # {}
    /\ \E j \in Jobs : scrapeJob[j].status = "SUCCESS"

\* b carries the ids of a in another order and in other letter case
Respelled(a, b) ==
    /\ Len(a) = Len(b)
    /\ \E p \in [1..Len(a) -> 1..Len(a)] :
        /\ \A i, j \in 1..Len(a) : p[i] = p[j] => i = j
        /\ \A i \in 1..Len(a) : toLowerCase(b[i]) = toLowerCase(a[p[i]])

\* the lookup of a request is answered in this step
LookupAnswered(kind) ==
    /\ boardCache'.last # boardCache.last
    /\ boardCache'.last.kind = kind

\* the latest store of the key is at most the time to live old
FreshlyStored(key) ==
    /\ key \in DOMAIN boardCache.stored
    /\ boardCache.now <= boardCache.stored[key].at + BOARD_CACHE_TTL_MS

\* ---------------------------------------------------------------------------
\* C36: the board-list cache never returns an entry after its expiry time,
\* 5 minutes after the store: a lookup at or before expiry returns exactly
\* the list of the latest store of the key, a lookup after expiry removes
\* the entry and reports a miss, and the key depends on the cafe ids only,
\* not on their order or letter case. (An entry of the map is always the
\* latest store of its key, so an answer that repeats the previous one is
\* covered as well.)
C36_BoardCache ==
    /\ [][LookupAnswered("hit") =>
            /\ FreshlyStored(boardCache'.last.key)
            /\ boardCache'.last.data = boardCache.stored[boardCache'.last.key].boards
            /\ boardCache'.map = boardCache.map]_vars
    /\ [][LookupAnswered("miss") =>
            /\ ~FreshlyStored(boardCache'.last.key)
            /\ boardCache'.last.key \notin DOMAIN boardCache'.map]_vars
    /\ [](\A key \in DOMAIN boardCache.map :
            /\ key \in DOMAIN boardCache.stored
            /\ boardCache.map[key].boards = boardCache.stored[key].boards
            /\ boardCache.map[key].expiresAt = boardCache.stored[key].at + BOARD_CACHE_TTL_MS)
    /\ [](\A cafeIds \in BagToSet(boardCache.inFlight) : \A b \in CafeIdInputs :
            Respelled(cafeIds, b) => makeBoardCacheKey(b) = makeBoardCacheKey(cafeIds))

\* a request for two cafes has been answered from the cache at the very
\* expiry time of the entry, with a list that is not empty
C36_Witness ==
    /\ boardCache.last.kind = "hit"
    /\ boardCache.last.data # <<>>
    /\ Len(boardCache.last.key) > 1
    /\ boardCache.now = boardCache.stored[boardCache.last.key].at + BOARD_CACHE_TTL_MS

====
